---- MODULE Spec2Model ----
(***************************************************************************)
(* GPIOKeywordDetector (KWD/GPIO): a keyword detector that reads blocks of  *)
(* audio from a shared stream on a dedicated thread and reports a keyword   *)
(* whenever a GPIO pin reads HIGH after a successful block read.            *)
(*                                                                          *)
(* Three threads of control are modelled:                                   *)
(*   - the caller of GPIOKeywordDetector::create (createPc),                *)
(*   - the detection thread running detectionLoop (threadPc),               *)
(*   - the thread running ~GPIOKeywordDetector (dtorPc).                    *)
(* The base class AbstractKeywordDetector (readFromStream, the notify       *)
(* functions, isByteswappingRequired) and the stream reader are defined     *)
(* elsewhere in the SDK; they are modelled from their documented contract.  *)
(***************************************************************************)
EXTENDS Integers, Sequences, FiniteSets, TLC

(***************************************************************************)
(* Bounds of the model.                                                     *)
(***************************************************************************)
\* Largest number of reads that return words, and of reads that overrun.
MaxWordReads == 3
MaxOverruns == 1
\* Largest number of keyword notifications recorded in one run.
MaxNotifs == 3
\* How often the destructor's shutdown sequence may be run in ShutdownAgainSpec.
MaxShutdownCalls == 2
\* Stream indices are unsigned; the width is narrowed from 64 bits.
IndexModulus == 65536

(***************************************************************************)
(* Program constants.                                                       *)
(***************************************************************************)
GPIO_PIN == 0
WW_REWIND_SAMPLES == 10
WAKEWORD_STRING == "alexa"
HERTZ_PER_KILOHERTZ == 1000
TIMEOUT_FOR_READ_CALLS == 1000
GPIO_COMPATIBLE_SAMPLE_RATE == 16000
GPIO_COMPATIBLE_SAMPLE_SIZE_IN_BITS == 16
GPIO_COMPATIBLE_NUM_CHANNELS == 1
GPIO_COMPATIBLE_ENCODING == "LPCM"
GPIO_COMPATIBLE_ENDIANNESS == "LITTLE"
\* Default of the constructor's msToPushPerIteration parameter.
DEFAULT_MS_TO_PUSH_PER_ITERATION == 10
\* AudioInputStream::Reader::Error::OVERRUN.
OVERRUN == -1

(***************************************************************************)
(* Inputs.                                                                  *)
(***************************************************************************)
Encodings == {"LPCM", "OPUS"}
Endiannesses == {"LITTLE", "BIG"}
SampleRates == {16000, 48000}
SampleSizes == {16, 32}
ChannelCounts == {1, 2}
AudioFormats ==
    [encoding : Encodings, endianness : Endiannesses, sampleRateHz : SampleRates,
     sampleSizeInBits : SampleSizes, numChannels : ChannelCounts]
\* Values of create's msToPushPerIteration argument.
MsToPushChoices == {10, 20}
\* Positions at which a freshly created reader may stand.
ReaderStartPositions == {0, 1520}
\* Distances the reader is moved forward when it is resynchronised to the
\* writer after an overrun.
OverrunSkips == {1600}
\* Return values of wiringPiSetup.
WiringPiResults == {-1, 0}
\* The registered keyword observers, in the order in which they are notified.
KeyWordObservers == <<"observer1", "observer2">>
\* The sets of observers whose onKeyWordDetected may fail in one notification.
ObserverFailures == SUBSET {"observer1", "observer2"}

VARIABLES
    args,                        \* arguments of create
    platformEndianness,          \* byte order of the host
    createPc,                    \* position of the caller inside create / init
    result,                      \* what create returned: "pending", "null", "instance"
    m_stream,                    \* "null" or "valid"
    m_maxSamplesPerPush,
    m_isShuttingDown,
    m_streamReader,              \* "null", "open", "closed"
    readerPos,                   \* m_streamReader->tell()
    m_beginIndexOfStreamReader,
    m_detectionThread,           \* "none", "joinable", "joined"
    threadPc,                    \* position of the detection thread
    gpioMode,                    \* "unset" or "INPUT" (pinMode of GPIO_PIN)
    dtorPc,                      \* position inside ~GPIOKeywordDetector
    dtorCalls,                   \* number of times the shutdown sequence was begun
    stateNotifs,                 \* states delivered to the state observers
    kwNotifs,                    \* windows delivered to the keyword observers
    hist                         \* history: counters of side effects

vars == <<args, platformEndianness, createPc, result, m_stream, m_maxSamplesPerPush,
          m_isShuttingDown, m_streamReader, readerPos, m_beginIndexOfStreamReader,
          m_detectionThread, threadPc, gpioMode, dtorPc, dtorCalls, stateNotifs,
          kwNotifs, hist>>

objVars == <<m_stream, m_maxSamplesPerPush, m_isShuttingDown, m_streamReader, readerPos,
             m_beginIndexOfStreamReader, m_detectionThread, threadPc, gpioMode>>
outVars == <<stateNotifs, kwNotifs>>
inVars == <<args, platformEndianness>>

Last(s) == s[Len(s)]

(***************************************************************************)
(* Pure functions.                                                          *)
(***************************************************************************)
\* Unsigned subtraction and multiplication on stream indices.
IndexSub(a, b) == (a - b + IndexModulus) % IndexModulus
IndexMul(a, b) == (a * b) % IndexModulus

\* AbstractKeywordDetector::isByteswappingRequired: the format's byte order
\* differs from the host's.
isByteswappingRequired(audioFormat) == audioFormat.endianness # platformEndianness

isAudioFormatCompatibleWithGPIOWW_NoChannelCheck(audioFormat) ==
    /\ GPIO_COMPATIBLE_ENCODING = audioFormat.encoding
    /\ GPIO_COMPATIBLE_ENDIANNESS = audioFormat.endianness
    /\ GPIO_COMPATIBLE_SAMPLE_RATE = audioFormat.sampleRateHz
    /\ GPIO_COMPATIBLE_SAMPLE_SIZE_IN_BITS = audioFormat.sampleSizeInBits

isAudioFormatCompatibleWithGPIOWW(audioFormat) ==
    IF GPIO_COMPATIBLE_ENCODING # audioFormat.encoding THEN FALSE
    ELSE IF GPIO_COMPATIBLE_ENDIANNESS # audioFormat.endianness THEN FALSE
    ELSE IF GPIO_COMPATIBLE_SAMPLE_RATE # audioFormat.sampleRateHz THEN FALSE
    ELSE IF GPIO_COMPATIBLE_SAMPLE_SIZE_IN_BITS # audioFormat.sampleSizeInBits THEN FALSE
    ELSE IF GPIO_COMPATIBLE_NUM_CHANNELS # audioFormat.numChannels THEN FALSE
    ELSE TRUE

\* The supported profile, for stating the claims.
SupportedFormat ==
    [encoding |-> "LPCM", endianness |-> "LITTLE", sampleRateHz |-> 16000,
     sampleSizeInBits |-> 16, numChannels |-> 1]

\* Member initialiser of the constructor.
MaxSamplesPerPush(audioFormat, msToPushPerIteration) ==
    (audioFormat.sampleRateHz \div HERTZ_PER_KILOHERTZ) * msToPushPerIteration

(***************************************************************************)
(* Initial state: create is about to be called; no detector exists yet.     *)
(* The constructor does not initialise m_isShuttingDown, so the flag starts *)
(* with either value.                                                       *)
(***************************************************************************)
HistInit ==
    [wiringPiSetups |-> 0, readerRequests |-> 0, threadsSpawned |-> 0, closes |-> 0,
     joins |-> 0, terminated |-> FALSE, triggers |-> <<>>, syncPos |-> 0, sinceSync |-> 0,
     wordReads |-> 0, overruns |-> 0, constructed |-> FALSE,
     gpioLog |-> <<>>, fullBlocks |-> TRUE, lastRead |-> "none",
     startedShuttingDown |-> FALSE, notifsAfterFlag |-> 0, lastFailing |-> {}]

Init ==
    /\ args \in [stream : {"null", "valid"}, audioFormat : AudioFormats,
                 msToPushPerIteration : MsToPushChoices]
    /\ platformEndianness \in Endiannesses
    /\ createPc = "checkStream"
    /\ result = "pending"
    /\ m_stream = "null"
    /\ m_maxSamplesPerPush = 0
    /\ m_isShuttingDown \in BOOLEAN
    /\ m_streamReader = "null"
    /\ readerPos = 0
    /\ m_beginIndexOfStreamReader = 0
    /\ m_detectionThread = "none"
    /\ threadPc = "none"
    /\ gpioMode = "unset"
    /\ dtorPc = "idle"
    /\ dtorCalls = 0
    /\ stateNotifs = <<>>
    /\ kwNotifs = <<>>
    /\ hist = HistInit

(***************************************************************************)
(* GPIOKeywordDetector::create                                              *)
(***************************************************************************)
\* if (!stream) return nullptr;
CreateCheckStream ==
    /\ createPc = "checkStream"
    /\ IF args.stream = "null"
       THEN createPc' = "returned" /\ result' = "null"
       ELSE createPc' = "checkByteswap" /\ result' = result
    /\ UNCHANGED <<inVars, objVars, dtorPc, dtorCalls, outVars, hist>>

\* if (isByteswappingRequired(audioFormat)) return nullptr;
CreateCheckByteswap ==
    /\ createPc = "checkByteswap"
    /\ IF isByteswappingRequired(args.audioFormat)
       THEN createPc' = "returned" /\ result' = "null"
       ELSE createPc' = "checkFormat" /\ result' = result
    /\ UNCHANGED <<inVars, objVars, dtorPc, dtorCalls, outVars, hist>>

\* if (!isAudioFormatCompatibleWithGPIOWW(audioFormat)) return nullptr;
CreateCheckFormat ==
    /\ createPc = "checkFormat"
    /\ IF ~isAudioFormatCompatibleWithGPIOWW(args.audioFormat)
       THEN createPc' = "returned" /\ result' = "null"
       ELSE createPc' = "construct" /\ result' = result
    /\ UNCHANGED <<inVars, objVars, dtorPc, dtorCalls, outVars, hist>>

\* new GPIOKeywordDetector(stream, keyWordObservers, keyWordDetectorStateObservers,
\* audioFormat): msToPushPerIteration is not passed on, the constructor's
\* default is used.
CreateConstruct ==
    /\ createPc = "construct"
    /\ m_stream' = args.stream
    /\ m_maxSamplesPerPush' =
           MaxSamplesPerPush(args.audioFormat, DEFAULT_MS_TO_PUSH_PER_ITERATION)
    /\ hist' = [hist EXCEPT !.constructed = TRUE]
    /\ createPc' = "wiringPiSetup"
    /\ UNCHANGED <<inVars, result, m_isShuttingDown, m_streamReader, readerPos,
                   m_beginIndexOfStreamReader, m_detectionThread, threadPc, gpioMode,
                   dtorPc, dtorCalls, outVars>>

(***************************************************************************)
(* GPIOKeywordDetector::init                                                *)
(***************************************************************************)
\* if (wiringPiSetup() < 0) return false;
InitWiringPiSetup ==
    /\ createPc = "wiringPiSetup"
    /\ \E rc \in WiringPiResults :
          createPc' = IF rc < 0 THEN "initFailed" ELSE "pinMode"
    /\ hist' = [hist EXCEPT !.wiringPiSetups = @ + 1]
    /\ UNCHANGED <<inVars, result, objVars, dtorPc, dtorCalls, outVars>>

\* pinMode(GPIO_PIN, INPUT);
InitPinMode ==
    /\ createPc = "pinMode"
    /\ gpioMode' = "INPUT"
    /\ createPc' = "createReader"
    /\ UNCHANGED <<inVars, result, m_stream, m_maxSamplesPerPush, m_isShuttingDown,
                   m_streamReader, readerPos, m_beginIndexOfStreamReader,
                   m_detectionThread, threadPc, dtorPc, dtorCalls, outVars, hist>>

\* Where init goes after createReader returned `reader`.
InitAfterCreateReader_NoNullCheck(reader) == "spawn"

InitAfterCreateReader(reader) == IF reader = "null" THEN "initFailed" ELSE "spawn"

\* m_streamReader = m_stream->createReader(BLOCKING); if (!m_streamReader) return false;
InitCreateReader ==
    /\ createPc = "createReader"
    /\ \E reader \in {"null", "open"} :
          /\ m_streamReader' = reader
          /\ createPc' = InitAfterCreateReader(reader)
          /\ IF reader = "open"
             THEN \E p \in ReaderStartPositions : readerPos' = p
             ELSE readerPos' = readerPos
    /\ hist' = [hist EXCEPT !.readerRequests = @ + 1, !.syncPos = readerPos',
                            !.sinceSync = 0]
    /\ UNCHANGED <<inVars, result, m_stream, m_maxSamplesPerPush, m_isShuttingDown,
                   m_beginIndexOfStreamReader, m_detectionThread, threadPc, gpioMode,
                   dtorPc, dtorCalls, outVars>>

\* m_isShuttingDown = false; m_detectionThread = std::thread(detectionLoop, this);
InitSpawn ==
    /\ createPc = "spawn"
    /\ m_isShuttingDown' = FALSE
    /\ m_detectionThread' = "joinable"
    /\ threadPc' = "start"
    /\ hist' = [hist EXCEPT !.threadsSpawned = @ + 1]
    /\ createPc' = "initOk"
    /\ UNCHANGED <<inVars, result, m_stream, m_maxSamplesPerPush, m_streamReader,
                   readerPos, m_beginIndexOfStreamReader, gpioMode, dtorPc, dtorCalls,
                   outVars>>

\* init() returned true: return detector;
CreateReturnDetector ==
    /\ createPc = "initOk"
    /\ result' = "instance"
    /\ createPc' = "returned"
    /\ UNCHANGED <<inVars, objVars, dtorPc, dtorCalls, outVars, hist>>

\* init() returned false: return nullptr; the unique_ptr going out of scope
\* runs the destructor of the detector.
CreateInitFailed ==
    /\ createPc = "initFailed"
    /\ createPc' = "unwinding"
    /\ dtorPc' = "setFlag"
    /\ dtorCalls' = dtorCalls + 1
    /\ UNCHANGED <<inVars, result, objVars, outVars, hist>>

CreateReturnNull ==
    /\ createPc = "unwinding"
    /\ dtorPc = "done"
    /\ result' = "null"
    /\ createPc' = "returned"
    /\ UNCHANGED <<inVars, objVars, dtorPc, dtorCalls, outVars, hist>>


(***************************************************************************)
(* GPIOKeywordDetector::~GPIOKeywordDetector                                *)
(***************************************************************************)
\* The owner of the instance returned by create destroys it, at any time.
DestroyDetector ==
    /\ result = "instance"
    /\ dtorCalls = 0
    /\ dtorPc' = "setFlag"
    /\ dtorCalls' = 1
    /\ UNCHANGED <<inVars, createPc, result, objVars, outVars, hist>>

\* m_isShuttingDown = true;
DtorSetFlag ==
    /\ dtorPc = "setFlag"
    /\ m_isShuttingDown' = TRUE
    /\ dtorPc' = "join"
    /\ UNCHANGED <<inVars, createPc, result, m_stream, m_maxSamplesPerPush,
                   m_streamReader, readerPos, m_beginIndexOfStreamReader,
                   m_detectionThread, threadPc, gpioMode, dtorCalls, outVars, hist>>

\* Whether the destructor calls join(): if (m_detectionThread.joinable()).
DtorCallsJoin_Unguarded(thread) == TRUE

DtorCallsJoin_Never(thread) == FALSE

DtorCallsJoin(thread) == thread = "joinable"

\* if (m_detectionThread.joinable()) m_detectionThread.join();
\* join() blocks until the thread function has returned; join() on a thread
\* that is not joinable throws out of the destructor, which terminates the
\* program.
DtorJoin ==
    /\ dtorPc = "join"
    /\ IF DtorCallsJoin(m_detectionThread)
       THEN IF m_detectionThread = "joinable"
            THEN /\ threadPc = "done"
                 /\ m_detectionThread' = "joined"
                 /\ hist' = [hist EXCEPT !.joins = @ + 1]
            ELSE /\ m_detectionThread' = m_detectionThread
                 /\ hist' = [hist EXCEPT !.terminated = TRUE]
       ELSE UNCHANGED <<m_detectionThread, hist>>
    /\ dtorPc' = "done"
    /\ UNCHANGED <<inVars, createPc, result, m_stream, m_maxSamplesPerPush,
                   m_isShuttingDown, m_streamReader, readerPos,
                   m_beginIndexOfStreamReader, threadPc, gpioMode, dtorCalls, outVars>>

\* The shutdown sequence of the destructor is requested once more after it
\* has completed (only part of ShutdownAgainSpec).
ShutdownAgain ==
    /\ dtorPc = "done"
    /\ createPc = "returned"
    /\ dtorCalls < MaxShutdownCalls
    /\ dtorPc' = "setFlag"
    /\ dtorCalls' = dtorCalls + 1
    /\ UNCHANGED <<inVars, createPc, result, objVars, outVars, hist>>

(***************************************************************************)
(* The stream reader, as seen through AbstractKeywordDetector::readFromStream*)
(***************************************************************************)
\* The outcomes of one readFromStream call of nWords words by a reader at
\* position pos: what is returned, whether *errorOccurred is set, where the
\* reader stands afterwards and which states the state observers were told.
\* mayRead and mayOverrun tell whether the run's bounds still allow words to
\* be read and the reader to be overrun.
ReadOutcomes(pos, nWords, mayRead, mayOverrun) ==
    \* fatal read failure: reported to the state observers
    {[wordsRead |-> 0, didErrorOccur |-> TRUE, tell |-> pos, notified |-> <<st>>] :
        st \in {"ERROR", "INACTIVE"}}
    \cup
    \* overrun: the reader is moved forward to the writer, nothing is reported
    {[wordsRead |-> OVERRUN, didErrorOccur |-> FALSE, tell |-> pos + k, notified |-> <<>>] :
        k \in {j \in OverrunSkips : mayOverrun}}
    \cup
    \* timeout: no words, no error
    {[wordsRead |-> 0, didErrorOccur |-> FALSE, tell |-> pos, notified |-> <<>>]}
    \cup
    \* words were read
    {[wordsRead |-> n, didErrorOccur |-> FALSE, tell |-> pos + n, notified |-> <<>>] :
        n \in {m \in {nWords \div 2, nWords} : m > 0 /\ mayRead}}

(***************************************************************************)
(* GPIOKeywordDetector::detectionLoop                                       *)
(***************************************************************************)
\* The loop condition: while (!m_isShuttingDown).
LoopCondition_IgnoresFlag(isShuttingDown) == TRUE

LoopCondition(isShuttingDown) == ~isShuttingDown

\* Which branch of the loop body is taken for a read outcome o, as the
\* position the thread moves to.
BranchAfterRead_RetryOnError(o) ==
    IF o.didErrorOccur THEN "test"
    ELSE IF o.wordsRead = OVERRUN THEN "test"
    ELSE IF o.wordsRead > 0 THEN "digitalRead"
    ELSE "test"

BranchAfterRead_CheckOnTimeout(o) ==
    IF o.didErrorOccur THEN "close"
    ELSE IF o.wordsRead = OVERRUN THEN "test"
    ELSE IF o.wordsRead >= 0 THEN "digitalRead"
    ELSE "test"

BranchAfterRead_ReturnOnError(o) ==
    IF o.didErrorOccur THEN "done"
    ELSE IF o.wordsRead = OVERRUN THEN "test"
    ELSE IF o.wordsRead > 0 THEN "digitalRead"
    ELSE "test"

BranchAfterRead_BreakOnOverrun(o) ==
    IF o.didErrorOccur THEN "close"
    ELSE IF o.wordsRead = OVERRUN THEN "close"
    ELSE IF o.wordsRead > 0 THEN "digitalRead"
    ELSE "test"

BranchAfterRead(o) ==
    IF o.didErrorOccur THEN "close"                    \* break
    ELSE IF o.wordsRead = OVERRUN THEN "test"
    ELSE IF o.wordsRead > 0 THEN "digitalRead"
    ELSE "test"

\* m_beginIndexOfStreamReader after the loop body handled outcome o.
BeginIndexAfterRead(o, beginIndex) ==
    IF ~o.didErrorOccur /\ o.wordsRead = OVERRUN THEN o.tell ELSE beginIndex

\* The begin index passed to notifyKeyWordObservers for a reader at `tell`.
WindowBegin_NoClamp(tell, maxSamplesPerPush) ==
    IndexSub(tell, IndexMul(maxSamplesPerPush, WW_REWIND_SAMPLES))

WindowBegin(tell, maxSamplesPerPush) ==
    IF tell < IndexMul(maxSamplesPerPush, WW_REWIND_SAMPLES)
    THEN 0
    ELSE IndexSub(tell, IndexMul(maxSamplesPerPush, WW_REWIND_SAMPLES))

\* The end index passed to notifyKeyWordObservers.
WindowEnd_BeginOfReader(tell, beginIndex) == beginIndex

WindowEnd(tell, beginIndex) == tell

\* m_beginIndexOfStreamReader = m_streamReader->tell();
\* notifyKeyWordDetectorStateObservers(ACTIVE);
DetectionLoopStart_NoActive ==
    /\ threadPc = "start"
    /\ m_beginIndexOfStreamReader' = readerPos
    /\ threadPc' = "test"
    /\ hist' = [hist EXCEPT !.startedShuttingDown = m_isShuttingDown]
    /\ UNCHANGED <<inVars, createPc, result, m_stream, m_maxSamplesPerPush,
                   m_isShuttingDown, m_streamReader, readerPos, m_detectionThread,
                   gpioMode, dtorPc, dtorCalls, stateNotifs, kwNotifs>>

DetectionLoopStart ==
    /\ threadPc = "start"
    /\ m_beginIndexOfStreamReader' = readerPos
    /\ stateNotifs' = Append(stateNotifs, "ACTIVE")
    /\ threadPc' = "test"
    /\ hist' = [hist EXCEPT !.startedShuttingDown = m_isShuttingDown]
    /\ UNCHANGED <<inVars, createPc, result, m_stream, m_maxSamplesPerPush,
                   m_isShuttingDown, m_streamReader, readerPos, m_detectionThread,
                   gpioMode, dtorPc, dtorCalls, kwNotifs>>

\* while (!m_isShuttingDown): enter the body, where readFromStream is called
\* at once, or leave the loop.
DetectionLoopTest ==
    /\ threadPc = "test"
    /\ threadPc' = IF LoopCondition(m_isShuttingDown) THEN "read" ELSE "close"
    \* hist.lastFailing describes the notification of the iteration just ended
    /\ hist' = [hist EXCEPT !.lastFailing = {}]
    /\ UNCHANGED <<inVars, createPc, result, m_stream, m_maxSamplesPerPush,
                   m_isShuttingDown, m_streamReader, readerPos,
                   m_beginIndexOfStreamReader, m_detectionThread, gpioMode, dtorPc,
                   dtorCalls, outVars>>

\* readFromStream returns and the loop body branches on its outcome.
DetectionLoopRead ==
    /\ threadPc = "read"
    /\ \E o \in ReadOutcomes(readerPos, m_maxSamplesPerPush,
                             hist.wordReads < MaxWordReads,
                             hist.overruns < MaxOverruns) :
          /\ readerPos' = o.tell
          /\ stateNotifs' = stateNotifs \o o.notified
          /\ threadPc' = BranchAfterRead(o)
          /\ m_beginIndexOfStreamReader' =
                 BeginIndexAfterRead(o, m_beginIndexOfStreamReader)
          /\ hist' = IF o.didErrorOccur
                     THEN [hist EXCEPT !.lastRead = "error"]
                     ELSE IF o.wordsRead = OVERRUN
                     THEN [hist EXCEPT !.syncPos = o.tell, !.sinceSync = 0,
                                       !.overruns = @ + 1, !.lastRead = "overrun"]
                     ELSE IF o.wordsRead > 0
                     THEN [hist EXCEPT !.sinceSync = @ + o.wordsRead,
                                       !.wordReads = @ + 1,
                                       !.fullBlocks =
                                           @ /\ o.wordsRead = m_maxSamplesPerPush,
                                       !.lastRead = "words"]
                     ELSE [hist EXCEPT !.lastRead = "timeout"]
    /\ UNCHANGED <<inVars, createPc, result, m_stream, m_maxSamplesPerPush,
                   m_isShuttingDown, m_streamReader, m_detectionThread, gpioMode,
                   dtorPc, dtorCalls, kwNotifs>>

\* Whether a reading of the pin counts as a trigger: if (gpioValue == HIGH).
\* The earlier readings of the pin (previous) are not consulted.
TriggerAsserted_OnLow(gpioValue, previous) == gpioValue = "LOW"

TriggerAsserted_RisingEdge(gpioValue, previous) ==
    gpioValue = "HIGH" /\ (previous = <<>> \/ Last(previous) = "LOW")

TriggerAsserted(gpioValue, previous) == gpioValue = "HIGH"

\* int gpioValue = digitalRead(GPIO_PIN); if (gpioValue == HIGH) ...
DetectionLoopDigitalRead ==
    /\ threadPc = "digitalRead"
    /\ \E gpioValue \in {"LOW", "HIGH"} :
          IF TriggerAsserted(gpioValue, hist.gpioLog)
          THEN /\ Len(hist.triggers) < MaxNotifs
               /\ hist' = [hist EXCEPT !.triggers = Append(@, readerPos),
                                       !.gpioLog = Append(@, gpioValue)]
               /\ threadPc' = "notify"
          ELSE /\ hist' = [hist EXCEPT !.gpioLog = Append(@, gpioValue)]
               /\ threadPc' = "test"
    /\ UNCHANGED <<inVars, createPc, result, m_stream, m_maxSamplesPerPush,
                   m_isShuttingDown, m_streamReader, readerPos,
                   m_beginIndexOfStreamReader, m_detectionThread, gpioMode, dtorPc,
                   dtorCalls, outVars>>

\* AbstractKeywordDetector::notifyKeyWordObservers: the observers that are
\* called, in order, when the observers in `failing` fail; a failure is kept
\* to the observer it occurs in.
NotifyKeyWordObservers(observers, failing) == observers

\* Where the thread goes after the notification: the end of the loop body.
AfterNotify_Break == "close"

AfterNotify == "test"

\* notifyKeyWordObservers(m_stream, WAKEWORD_STRING, begin, m_streamReader->tell());
DetectionLoopNotify ==
    /\ threadPc = "notify"
    /\ \E failing \in ObserverFailures :
          /\ kwNotifs' = Append(kwNotifs,
                 [stream |-> m_stream, keyword |-> WAKEWORD_STRING,
                  beginIndex |-> WindowBegin(readerPos, m_maxSamplesPerPush),
                  endIndex |-> WindowEnd(readerPos, m_beginIndexOfStreamReader),
                  deliveredTo |-> NotifyKeyWordObservers(KeyWordObservers, failing)])
          /\ hist' = [hist EXCEPT !.lastFailing = failing,
                                  !.notifsAfterFlag =
                                      IF m_isShuttingDown THEN @ + 1 ELSE @]
    /\ threadPc' = AfterNotify
    /\ UNCHANGED <<inVars, createPc, result, m_stream, m_maxSamplesPerPush,
                   m_isShuttingDown, m_streamReader, readerPos,
                   m_beginIndexOfStreamReader, m_detectionThread, gpioMode, dtorPc,
                   dtorCalls, stateNotifs>>

\* m_streamReader->close(); and the thread function returns.
DetectionLoopClose ==
    /\ threadPc = "close"
    /\ m_streamReader' = "closed"
    /\ hist' = [hist EXCEPT !.closes = @ + 1]
    /\ threadPc' = "done"
    /\ UNCHANGED <<inVars, createPc, result, m_stream, m_maxSamplesPerPush,
                   m_isShuttingDown, readerPos, m_beginIndexOfStreamReader,
                   m_detectionThread, gpioMode, dtorPc, dtorCalls, outVars>>

(***************************************************************************)
(* Specifications.                                                          *)
(***************************************************************************)
CreateStep ==
    \/ CreateCheckStream
    \/ CreateCheckByteswap
    \/ CreateCheckFormat
    \/ CreateConstruct
    \/ InitWiringPiSetup
    \/ InitPinMode
    \/ InitCreateReader
    \/ InitSpawn
    \/ CreateReturnDetector
    \/ CreateInitFailed
    \/ CreateReturnNull

ThreadStep ==
    \/ DetectionLoopStart
    \/ DetectionLoopTest
    \/ DetectionLoopRead
    \/ DetectionLoopDigitalRead
    \/ DetectionLoopNotify
    \/ DetectionLoopClose

DtorStep ==
    \/ DtorSetFlag
    \/ DtorJoin

Next ==
    \/ CreateStep
    \/ ThreadStep
    \/ DestroyDetector
    \/ DtorStep

Spec == Init /\ [][Next]_vars

\* The scheduler runs every thread that can take a step; a read returns
\* within its timeout.
FairSpec == Spec /\ WF_vars(CreateStep) /\ WF_vars(ThreadStep) /\ WF_vars(DtorStep)

\* The shutdown sequence may be requested again after it has completed.
NextShutdownAgain == Next \/ ShutdownAgain

ShutdownAgainSpec == Init /\ [][NextShutdownAgain]_vars


(***************************************************************************)
(* Vocabulary of the properties.                                            *)
(***************************************************************************)
ThreadRunning == threadPc \in {"start", "test", "read", "digitalRead", "notify", "close"}
ThreadPastStart == threadPc \in {"test", "read", "digitalRead", "notify", "close", "done"}
ActiveCount == Cardinality({i \in DOMAIN stateNotifs : stateNotifs[i] = "ACTIVE"})
TerminalCount == Cardinality({i \in DOMAIN stateNotifs : stateNotifs[i] # "ACTIVE"})
RewindSamples == m_maxSamplesPerPush * 10
Max(a, b) == IF a >= b THEN a ELSE b

(***************************************************************************)
(* C1: a format that differs from the supported profile (LPCM, little       *)
(* endian, 16000 Hz, 16 bits, 1 channel) in any field makes create return   *)
(* no instance, and at no point of that call has a reader been requested,   *)
(* the signal line been set up or configured, or a thread been spawned.     *)
(***************************************************************************)
C1_MismatchRejectedEarly ==
    args.audioFormat # SupportedFormat =>
        /\ result # "instance"
        /\ (createPc = "returned" => result = "null")
        /\ hist.readerRequests = 0
        /\ m_streamReader = "null"
        /\ hist.wiringPiSetups = 0
        /\ gpioMode = "unset"
        /\ hist.threadsSpawned = 0
        /\ threadPc = "none"

\* create has returned null for a valid stream and a format that differs
\* from the profile only in a field the byte-order test does not look at.
C1_Witness ==
    /\ createPc = "returned"
    /\ result = "null"
    /\ args.stream = "valid"
    /\ ~isByteswappingRequired(args.audioFormat)
    /\ args.audioFormat = [SupportedFormat EXCEPT !.numChannels = 2]

(***************************************************************************)
(* C2: a failed create never started a thread; the detection thread is      *)
(* spawned only with a non-null reader and a cleared shutdown flag, a       *)
(* spawned thread always has a non-null reader, and at most one thread is   *)
(* ever spawned.                                                            *)
(***************************************************************************)
C2_StateInv ==
    /\ (result = "null" => hist.threadsSpawned = 0 /\ threadPc = "none")
    /\ (createPc \in {"initFailed", "unwinding"} =>
            hist.threadsSpawned = 0 /\ threadPc = "none")
    /\ (threadPc # "none" => m_streamReader # "null")
    /\ hist.threadsSpawned <= 1

C2_NoThreadOnFailure ==
    /\ []C2_StateInv
    /\ [][hist'.threadsSpawned > hist.threadsSpawned =>
              m_streamReader = "open" /\ ~m_isShuttingDown']_vars

\* create has returned null because no reader could be acquired.
C2_Witness ==
    /\ createPc = "returned"
    /\ result = "null"
    /\ hist.readerRequests = 1
    /\ m_streamReader = "null"
    /\ gpioMode = "INPUT"

(***************************************************************************)
(* C3: the detection thread notifies ACTIVE exactly once, before its first  *)
(* read and before any keyword notification, and never again.               *)
(***************************************************************************)
C3_ActiveOnceFirst ==
    /\ ActiveCount <= 1
    /\ (ThreadPastStart => ActiveCount = 1 /\ stateNotifs[1] = "ACTIVE")
    /\ (~ThreadPastStart =>
            stateNotifs = <<>> /\ kwNotifs = <<>> /\ hist.wordReads = 0
            /\ hist.overruns = 0)
    /\ (kwNotifs # <<>> => ActiveCount = 1)

\* The thread has run to its end through an overrun, a keyword notification
\* and a fatal read error.
C3_Witness ==
    /\ threadPc = "done"
    /\ ActiveCount = 1
    /\ hist.overruns >= 1
    /\ Len(kwNotifs) >= 1
    /\ TerminalCount = 1

(***************************************************************************)
(* C4: every keyword notification, for the trigger observed at reader       *)
(* position t, has endIndex = t and beginIndex = max(0, t - 10 *            *)
(* samplesPerIteration), hence beginIndex <= endIndex.                      *)
(***************************************************************************)
C4_WindowOfTrigger ==
    \A i \in DOMAIN kwNotifs :
        /\ i \in DOMAIN hist.triggers
        /\ kwNotifs[i].endIndex = hist.triggers[i]
        /\ kwNotifs[i].beginIndex = Max(0, hist.triggers[i] - RewindSamples)
        /\ kwNotifs[i].beginIndex <= kwNotifs[i].endIndex

\* One notification whose trigger lies below the rewind distance and one
\* whose trigger lies above it.
C4_Witness ==
    /\ \E i \in DOMAIN kwNotifs :
          hist.triggers[i] < RewindSamples /\ kwNotifs[i].beginIndex = 0
    /\ \E j \in DOMAIN kwNotifs :
          hist.triggers[j] > RewindSamples /\ kwNotifs[j].beginIndex > 0

(***************************************************************************)
(* C5: a fatal read failure is reported to the state observers by one       *)
(* terminal notification, at most once, and ends the loop at once: after it *)
(* the thread only closes the reader; it reads no more, checks no trigger   *)
(* and notifies no keyword.                                                 *)
(***************************************************************************)
C5_FatalErrorEndsLoop ==
    /\ [](TerminalCount <= 1)
    /\ [](TerminalCount >= 1 => threadPc \in {"close", "done"})
    /\ [][TerminalCount >= 1 =>
              /\ kwNotifs' = kwNotifs
              /\ stateNotifs' = stateNotifs
              /\ readerPos' = readerPos
              /\ hist'.triggers = hist.triggers
              /\ hist'.wordReads = hist.wordReads
              /\ hist'.overruns = hist.overruns]_vars

\* The loop ended on a fatal read error, not on a shutdown request, after
\* it had delivered a keyword.
C5_Witness ==
    /\ threadPc = "done"
    /\ TerminalCount = 1
    /\ ~m_isShuttingDown
    /\ Len(kwNotifs) >= 1
    /\ hist.wordReads >= 2

(***************************************************************************)
(* C6: an overrun does not end the loop and tells the observers nothing;    *)
(* the loop sets its origin reference to the reader's resynchronised        *)
(* position and goes on to the next loop test, and a keyword notified       *)
(* afterwards has its indices counted from the resynchronised position.     *)
(***************************************************************************)
C6_OverrunRecovered ==
    /\ [][hist'.overruns > hist.overruns =>
              /\ threadPc' = "test"
              /\ stateNotifs' = stateNotifs
              /\ kwNotifs' = kwNotifs
              /\ hist'.triggers = hist.triggers
              /\ m_beginIndexOfStreamReader' = readerPos'
              /\ m_streamReader' = "open"]_vars
    /\ [][Len(kwNotifs') > Len(kwNotifs) =>
              /\ Last(kwNotifs').endIndex = hist.syncPos + hist.sinceSync
              /\ Last(kwNotifs').beginIndex =
                     Max(0, hist.syncPos + hist.sinceSync - RewindSamples)]_vars
    /\ [](ThreadPastStart => m_beginIndexOfStreamReader = hist.syncPos)

\* A keyword was notified after an overrun, at a position counted from the
\* resynchronised one, and no terminal state was reported.
C6_Witness ==
    /\ hist.overruns >= 1
    /\ hist.syncPos >= 1600
    /\ hist.sinceSync > 0
    /\ kwNotifs # <<>>
    /\ Last(kwNotifs).endIndex = hist.syncPos + hist.sinceSync
    /\ TerminalCount = 0
    /\ threadPc = "read"

(***************************************************************************)
(* C7: the keyword notifications are delivered in the order in which the    *)
(* loop observed the triggers: the i-th notification ends at the i-th       *)
(* trigger position, every observed trigger is notified before the next     *)
(* read, and the end indices never decrease.                                *)
(***************************************************************************)
C7_NotificationsInOrder ==
    /\ Len(kwNotifs) = IF threadPc = "notify" THEN Len(hist.triggers) - 1
                       ELSE Len(hist.triggers)
    /\ \A i \in DOMAIN kwNotifs : kwNotifs[i].endIndex = hist.triggers[i]
    /\ \A i, j \in DOMAIN kwNotifs :
          i < j => kwNotifs[i].endIndex <= kwNotifs[j].endIndex

\* Three triggers at increasing positions, with an overrun in
\* the run, all three notified.
C7_Witness ==
    /\ Len(kwNotifs) = 3
    /\ hist.triggers[1] < hist.triggers[2]
    /\ hist.triggers[2] < hist.triggers[3]
    /\ hist.overruns >= 1
    /\ threadPc = "test"


(***************************************************************************)
(* C8: the destructor sets the shutdown flag before it waits, and when it   *)
(* has returned the detection thread is not running and, if it ever ran,    *)
(* has been joined after closing the reader; the destructor always returns, *)
(* also when no thread was started or the thread had already exited.        *)
(***************************************************************************)
C8_StateInv ==
    /\ (dtorPc \in {"join", "done"} => m_isShuttingDown)
    /\ (dtorPc = "done" =>
            /\ ~ThreadRunning
            /\ ~hist.terminated
            /\ (hist.threadsSpawned > 0 =>
                    /\ threadPc = "done"
                    /\ m_detectionThread = "joined"
                    /\ m_streamReader = "closed"
                    /\ hist.closes = 1))

C8_JoinBeforeDestroy ==
    /\ []C8_StateInv
    /\ (dtorPc \in {"setFlag", "join"} ~> dtorPc = "done")

\* The destructor has returned after joining a thread that left its loop
\* because of the shutdown flag.
C8_Witness ==
    /\ dtorPc = "done"
    /\ hist.threadsSpawned = 1
    /\ hist.joins = 1
    /\ TerminalCount = 0
    /\ hist.wordReads >= 1

(***************************************************************************)
(* C9: once the shutdown flag is set the loop begins no further read (only  *)
(* a read already in progress returns), and the running thread eventually   *)
(* exits.                                                                   *)
(***************************************************************************)
C9_ShutdownObserved ==
    /\ [][threadPc # "read" /\ threadPc' = "read" => ~m_isShuttingDown]_vars
    /\ ((m_isShuttingDown /\ ThreadRunning) ~> threadPc = "done")

\* The flag has been set while a read is in progress.
C9_Witness ==
    /\ m_isShuttingDown
    /\ threadPc = "read"
    /\ dtorPc = "join"
    /\ hist.wordReads >= 1

(***************************************************************************)
(* C10: running the shutdown sequence again after it has completed changes  *)
(* nothing: the thread, the reader, the flag and the notifications stay as  *)
(* the first run left them, the reader is closed at most once and the       *)
(* thread is joined at most once, never when it is not joinable.            *)
(***************************************************************************)
TerminalState ==
    <<threadPc, m_detectionThread, m_streamReader, readerPos, m_isShuttingDown,
      m_beginIndexOfStreamReader, stateNotifs, kwNotifs, hist>>

C10_ShutdownIdempotent ==
    /\ [](hist.closes <= 1 /\ hist.joins <= 1 /\ ~hist.terminated)
    /\ [][(dtorCalls >= 2 \/ (dtorCalls >= 1 /\ dtorPc = "done")) =>
              UNCHANGED TerminalState]_vars

\* The shutdown sequence has completed a second time on a detector whose
\* thread had run and notified a keyword.
C10_Witness ==
    /\ dtorCalls = 2
    /\ dtorPc = "done"
    /\ hist.joins = 1
    /\ hist.closes = 1
    /\ Len(kwNotifs) >= 1


(***************************************************************************)
(* C11: once the detector is constructed, samplesPerIteration               *)
(* (m_maxSamplesPerPush) equals (sampleRateHz / 1000) times the             *)
(* msToPushPerIteration the caller passed to create.                        *)
(***************************************************************************)
C11_SamplesFromCallersMs ==
    hist.constructed =>
        m_maxSamplesPerPush =
            (args.audioFormat.sampleRateHz \div HERTZ_PER_KILOHERTZ)
                * args.msToPushPerIteration


(***************************************************************************)
(* C12: if the pin read LOW at the first k trigger checks and HIGH at       *)
(* exactly one check after them, exactly one keyword is notified over the   *)
(* run, and none while all checks read LOW; its end index is the reader     *)
(* position at that check, which is the start position plus (k + 1) blocks  *)
(* when every read was a full block and no overrun occurred.                *)
(***************************************************************************)
HighChecks == {i \in DOMAIN hist.gpioLog : hist.gpioLog[i] = "HIGH"}

C12_SingleHighSingleKeyword ==
    /\ (HighChecks = {} => kwNotifs = <<>>)
    /\ (Cardinality(HighChecks) = 1 /\ threadPc # "notify" =>
            /\ Len(kwNotifs) = 1
            /\ kwNotifs[1].endIndex = hist.triggers[1]
            /\ (hist.fullBlocks /\ hist.overruns = 0 =>
                    \E c \in HighChecks :
                        /\ kwNotifs[1].endIndex =
                               hist.syncPos + c * m_maxSamplesPerPush
                        /\ kwNotifs[1].endIndex - (hist.syncPos + (c - 1) * m_maxSamplesPerPush)
                               <= m_maxSamplesPerPush))

\* LOW, then HIGH once, then LOW again, with full blocks and no overrun.
C12_Witness ==
    /\ hist.gpioLog = <<"LOW", "HIGH", "LOW">>
    /\ hist.fullBlocks
    /\ hist.overruns = 0
    /\ Len(kwNotifs) = 1
    /\ threadPc = "done"


C14_StartSkippedOnShutdown ==
    [][threadPc = "start" /\ m_isShuttingDown /\ threadPc' # "start" =>
           /\ threadPc' = "close"
           /\ stateNotifs' = stateNotifs
           /\ m_beginIndexOfStreamReader' = m_beginIndexOfStreamReader]_vars

(***************************************************************************)
(* C14, amended: the shutdown flag is tested only at the top of each loop   *)
(* iteration. A detection thread that begins to execute when shutdown has   *)
(* already been requested still records the origin and notifies ACTIVE      *)
(* once, then leaves the loop at its first test: it reads nothing, checks   *)
(* no trigger, notifies no keyword and closes the reader.                   *)
(***************************************************************************)
C14_StartRunsThenLoopSkipped ==
    /\ [][threadPc = "start" /\ m_isShuttingDown /\ threadPc' # "start" =>
              /\ threadPc' = "test"
              /\ stateNotifs' = Append(stateNotifs, "ACTIVE")
              /\ m_beginIndexOfStreamReader' = readerPos]_vars
    /\ [][threadPc = "test" /\ m_isShuttingDown /\ threadPc' # "test" =>
              threadPc' = "close"]_vars
    /\ [](hist.startedShuttingDown =>
              /\ threadPc \in {"test", "close", "done"}
              /\ stateNotifs = <<"ACTIVE">>
              /\ kwNotifs = <<>>
              /\ hist.gpioLog = <<>>
              /\ hist.wordReads = 0
              /\ hist.overruns = 0
              /\ hist.lastRead = "none")

\* A thread that started under a shutdown request has run to its end.
C14_Witness ==
    /\ hist.startedShuttingDown
    /\ threadPc = "done"
    /\ m_streamReader = "closed"
    /\ stateNotifs = <<"ACTIVE">>


(***************************************************************************)
(* C15: the signal line is read, and a keyword can be notified, only in an  *)
(* iteration whose read returned more than 0 words; after a timeout, an     *)
(* overrun or an error the iteration reads no signal line and notifies no   *)
(* keyword, and a timeout changes nothing and leads back to the loop test.  *)
(***************************************************************************)
C15_TriggerCheckOnlyAfterWords ==
    /\ [][threadPc = "read" /\ threadPc' # "read" =>
              (threadPc' = "digitalRead" <=> hist'.lastRead = "words")]_vars
    /\ [][hist'.gpioLog # hist.gpioLog =>
              threadPc = "digitalRead" /\ hist.lastRead = "words"]_vars
    /\ [][Len(kwNotifs') > Len(kwNotifs) => hist.lastRead = "words"]_vars
    /\ [][threadPc = "read" /\ threadPc' # "read" /\ hist'.lastRead = "timeout" =>
              /\ threadPc' = "test"
              /\ UNCHANGED <<m_beginIndexOfStreamReader, readerPos, m_streamReader,
                             stateNotifs, kwNotifs>>]_vars
    /\ [](Len(hist.gpioLog) <= hist.wordReads)
    /\ [](threadPc \in {"digitalRead", "notify"} => hist.lastRead = "words")

\* After one read of words with its trigger check, a read timed out and the
\* loop is in its next read without another trigger check.
C15_Witness ==
    /\ hist.lastRead = "timeout"
    /\ threadPc = "read"
    /\ hist.wordReads = 1
    /\ Len(hist.gpioLog) = 1
    /\ m_streamReader = "open"

(***************************************************************************)
(* C16: whichever way the loop is left, the reader is closed exactly once   *)
(* before the thread function returns, and once it is closed the thread     *)
(* reads nothing, moves no position, reads no signal line and notifies no   *)
(* observer.                                                                *)
(***************************************************************************)
C16_ReaderClosedOnExit ==
    /\ [](hist.closes <= 1)
    /\ [](threadPc = "done" => m_streamReader = "closed" /\ hist.closes = 1)
    /\ [](m_streamReader = "closed" => threadPc = "done")
    /\ [][m_streamReader = "closed" =>
              /\ UNCHANGED <<threadPc, m_streamReader, readerPos,
                             m_beginIndexOfStreamReader, stateNotifs, kwNotifs>>
              /\ hist'.gpioLog = hist.gpioLog
              /\ hist'.triggers = hist.triggers
              /\ hist'.lastRead = hist.lastRead
              /\ hist'.closes = hist.closes]_vars

\* The thread function has returned after a fatal read error, with no
\* shutdown requested, and the reader is closed.
C16_Witness ==
    /\ threadPc = "done"
    /\ hist.lastRead = "error"
    /\ ~m_isShuttingDown
    /\ m_streamReader = "closed"
    /\ hist.closes = 1

(***************************************************************************)
(* C17: detection is level triggered: every trigger check that reads HIGH   *)
(* produces a keyword notification ending at the reader position of its     *)
(* iteration, also when the preceding check read HIGH as well.              *)
(***************************************************************************)
C17_LevelTriggered ==
    /\ Len(hist.triggers) = Cardinality(HighChecks)
    /\ (threadPc # "notify" => Len(kwNotifs) = Cardinality(HighChecks))
    /\ \A i \in DOMAIN kwNotifs : kwNotifs[i].endIndex = hist.triggers[i]
    /\ \A i \in DOMAIN hist.triggers :
          i > 1 => hist.triggers[i - 1] < hist.triggers[i]

\* The pin read HIGH in three consecutive iterations and three keywords
\* were notified.
C17_Witness ==
    /\ hist.gpioLog = <<"HIGH", "HIGH", "HIGH">>
    /\ Len(kwNotifs) = 3
    /\ kwNotifs[1].endIndex < kwNotifs[2].endIndex
    /\ kwNotifs[2].endIndex < kwNotifs[3].endIndex

(***************************************************************************)
(* C18: at most one keyword is notified after the shutdown flag was set,    *)
(* and none after the destructor has returned.                              *)
(***************************************************************************)
C18_OneKeywordAfterShutdown ==
    /\ [](hist.notifsAfterFlag <= 1)
    /\ [][dtorPc = "done" => kwNotifs' = kwNotifs]_vars
    /\ [](dtorPc = "done" => threadPc # "notify")

\* A keyword was notified after the flag was set, and the destructor has
\* returned.
C18_Witness ==
    /\ hist.notifsAfterFlag = 1
    /\ dtorPc = "done"
    /\ threadPc = "done"


====
